---- MODULE Spec2Model ----
(***************************************************************************)
(* imgdir2pdf: a directory of images is listed, filtered by extension,     *)
(* sorted by a numeric-aware key, probed for its image sizes and written   *)
(* as one PDF page per image (src/imgdir2pdf.go).                          *)
(*                                                                         *)
(* Go strings are TLA+ strings (Len, SubSeq and \o act on them); a sort    *)
(* key, which holds raw bytes, is a sequence of byte values 0..255.        *)
(* A uint64 is its 8 big-endian bytes, so that parsing, the +1 and the     *)
(* wrap at 2^64 are computed exactly.  A float64 page size is an exact     *)
(* fraction <<numerator, denominator>> in lowest terms: rounding of the    *)
(* last bit is not represented.                                            *)
(***************************************************************************)
EXTENDS Integers, Sequences, FiniteSets, TLC

VARIABLES
    args,      \* os.Args[1:]: <<>> or <<DIR>>
    wd,        \* the working directory, "" when os.Getwd fails
    listable,  \* whether ioutil.ReadDir(DIR) succeeds
    files,     \* the entries of DIR: a set of [name, isDir]
    pc,        \* position of main
    paths,     \* lsdir's result
    saveAs,    \* getOutFilename's result
    seen,      \* what each probed path holds: an error or the size
    probes,    \* the paths getImageSize was called on, in call order
    doc,       \* the gofpdf document: [made, def, pages, err]
    outFile,   \* the file at saveAs: [exists, pages]
    stdout,    \* what was printed
    fault,     \* the panic that ended the run, "" if none
    next,      \* the round of the loop of processImages
    basepath,  \* getOutFilename driver: its argument
    outName,   \* getOutFilename driver: its result
    templ,     \* optimalPageSize driver: the template size <<w, h>>
    given,     \* optimalPageSize driver: the image size <<w, h>>
    page       \* optimalPageSize driver: the result <<w, h>>, fractions

vars == << args, wd, listable, files, pc, paths, saveAs, seen, probes, doc,
           outFile, stdout, fault, next, basepath, outName, templ, given, page >>

----------------------------------------------------------------------------
(* Characters and bytes *)

Digits == "0123456789"
LowerCase == "abcdefghijklmnopqrstuvwxyz"
UpperCase == "ABCDEFGHIJKLMNOPQRSTUVWXYZ"

CharAt(s, i) == SubSeq(s, i, i)

IndexIn(c, alphabet) ==
    IF \E i \in 1..Len(alphabet) : CharAt(alphabet, i) = c
    THEN CHOOSE i \in 1..Len(alphabet) : CharAt(alphabet, i) = c
    ELSE 0

IsDigit(c) == IndexIn(c, Digits) > 0

\* The byte of an ASCII character ('0' is 48, 'A' 65, 'a' 97, '.' 46, '/' 47).
Ord(c) ==
    IF IndexIn(c, Digits) > 0 THEN 47 + IndexIn(c, Digits)
    ELSE IF IndexIn(c, UpperCase) > 0 THEN 64 + IndexIn(c, UpperCase)
    ELSE IF IndexIn(c, LowerCase) > 0 THEN 96 + IndexIn(c, LowerCase)
    ELSE IF c = "." THEN 46
    ELSE IF c = "/" THEN 47
    ELSE 95

Bytes(s) == [i \in 1..Len(s) |-> Ord(CharAt(s, i))]

\* s < t for Go strings: byte-wise, a proper prefix first.
RECURSIVE BytesLess(_, _)
BytesLess(s, t) ==
    IF t = << >> THEN FALSE
    ELSE IF s = << >> THEN TRUE
    ELSE IF Head(s) # Head(t) THEN Head(s) < Head(t)
    ELSE BytesLess(Tail(s), Tail(t))

HasSuffix(s, suffix) ==
    /\ Len(s) >= Len(suffix)
    /\ SubSeq(s, Len(s) - Len(suffix) + 1, Len(s)) = suffix

RECURSIVE ToUpper(_)
ToUpper(s) ==
    IF Len(s) = 0 THEN ""
    ELSE LET c == CharAt(s, 1)
             k == IndexIn(c, LowerCase)
         IN (IF k > 0 THEN CharAt(UpperCase, k) ELSE c)
            \o ToUpper(SubSeq(s, 2, Len(s)))

----------------------------------------------------------------------------
(* path / filepath *)

\* The index of the dot that starts the extension: the last dot after the
\* last slash, 0 when there is none.
RECURSIVE ExtStart(_, _)
ExtStart(p, i) ==
    IF i = 0 \/ CharAt(p, i) = "/" THEN 0
    ELSE IF CharAt(p, i) = "." THEN i
    ELSE ExtStart(p, i - 1)

Ext(p) ==
    LET i == ExtStart(p, Len(p))
    IN IF i = 0 THEN "" ELSE SubSeq(p, i, Len(p))

IsAbs(p) == Len(p) > 0 /\ CharAt(p, 1) = "/"

\* The index of the first slash of p, 0 when there is none.
FirstSlash(p) ==
    IF \E i \in 1..Len(p) : CharAt(p, i) = "/"
    THEN CHOOSE i \in 1..Len(p) :
            CharAt(p, i) = "/" /\ \A j \in 1..(i - 1) : CharAt(p, j) # "/"
    ELSE 0

\* The elements of p between its slashes.
RECURSIVE Split(_)
Split(p) ==
    LET k == FirstSlash(p)
    IN IF k = 0 THEN << p >>
       ELSE << SubSeq(p, 1, k - 1) >> \o Split(SubSeq(p, k + 1, Len(p)))

RECURSIVE JoinParts(_)
JoinParts(parts) ==
    IF parts = << >> THEN ""
    ELSE IF Len(parts) = 1 THEN parts[1]
    ELSE parts[1] \o "/" \o JoinParts(Tail(parts))

\* Clean's pass over the elements: empty and "." elements are dropped, ".."
\* removes the element before it, is dropped at the root and is kept at the
\* start of a relative path.
RECURSIVE CleanParts(_, _, _)
CleanParts(parts, out, rooted) ==
    IF parts = << >> THEN out
    ELSE LET e == Head(parts)
             rest == Tail(parts)
         IN IF e = "" \/ e = "." THEN CleanParts(rest, out, rooted)
            ELSE IF e = ".."
            THEN IF out # << >> /\ out[Len(out)] # ".."
                 THEN CleanParts(rest, SubSeq(out, 1, Len(out) - 1), rooted)
                 ELSE IF rooted THEN CleanParts(rest, out, rooted)
                 ELSE CleanParts(rest, Append(out, e), rooted)
            ELSE CleanParts(rest, Append(out, e), rooted)

Clean(p) ==
    LET out == JoinParts(CleanParts(Split(p), << >>, IsAbs(p)))
    IN IF IsAbs(p) THEN "/" \o out
       ELSE IF out = "" THEN "."
       ELSE out

\* filepath.Join of two elements: the elements from the first non-empty one
\* on, joined by slashes and cleaned.
Join(a, b) ==
    IF a # "" THEN Clean(a \o "/" \o b)
    ELSE IF b # "" THEN Clean(b)
    ELSE ""

\* filepath.Abs under working directory w ("" when os.Getwd fails).
Abs(p, w) ==
    IF IsAbs(p) THEN [err |-> FALSE, val |-> Clean(p)]
    ELSE IF w = "" THEN [err |-> TRUE, val |-> ""]
    ELSE [err |-> FALSE, val |-> Join(w, p)]

RECURSIVE StripSlashes(_)
StripSlashes(p) ==
    IF Len(p) > 0 /\ CharAt(p, Len(p)) = "/"
    THEN StripSlashes(SubSeq(p, 1, Len(p) - 1))
    ELSE p

\* The index of the last slash of p, 0 when there is none.
RECURSIVE LastSlash(_, _)
LastSlash(p, i) ==
    IF i = 0 \/ CharAt(p, i) = "/" THEN i ELSE LastSlash(p, i - 1)

Base(p) ==
    IF p = "" THEN "."
    ELSE LET q == StripSlashes(p)
             r == SubSeq(q, LastSlash(q, Len(q)) + 1, Len(q))
         IN IF r = "" THEN "/" ELSE r

----------------------------------------------------------------------------
(* strconv.ParseUint and encoding/binary on a uint64 held as 8 bytes *)

ByteWidth == 8
ByteBase == 256

ZeroBytes == [k \in 1..ByteWidth |-> 0]

\* The carry into byte k (counted from the most significant) of b * 10 + d.
RECURSIVE MulAddCarry(_, _, _)
MulAddCarry(b, d, k) ==
    IF k = ByteWidth THEN d
    ELSE (b[k + 1] * 10 + MulAddCarry(b, d, k + 1)) \div ByteBase

\* b * 10 + d: its low 64 bits and whether it needed more.
MulAdd(b, d) ==
    [val |-> [k \in 1..ByteWidth |-> (b[k] * 10 + MulAddCarry(b, d, k)) % ByteBase],
     over |-> (b[1] * 10 + MulAddCarry(b, d, 1)) \div ByteBase > 0]

\* strconv.ParseUint(s, 10, 64) of a string of digits: a value above
\* 2^64 - 1 is a range error.
RECURSIVE ParseUintFrom(_, _)
ParseUintFrom(s, acc) ==
    IF Len(s) = 0 THEN [err |-> FALSE, val |-> acc]
    ELSE LET r == MulAdd(acc, IndexIn(CharAt(s, 1), Digits) - 1)
         IN IF r.over THEN [err |-> TRUE, val |-> ZeroBytes]
            ELSE ParseUintFrom(SubSeq(s, 2, Len(s)), r.val)

ParseUint(s) == ParseUintFrom(s, ZeroBytes)

\* u64 + 1 in uint64 arithmetic: byte k gains the carry of the bytes after
\* it, and the carry out of the first byte is lost.
PlusOne(b) ==
    [k \in 1..ByteWidth |->
        IF \A j \in (k + 1)..ByteWidth : b[j] = ByteBase - 1
        THEN (b[k] + 1) % ByteBase
        ELSE b[k]]

----------------------------------------------------------------------------
(* sortName *)

\* The number of characters of name before its trailing run of digits.
RECURSIVE DigitRunStart(_, _)
DigitRunStart(name, i) ==
    IF i = 0 \/ ~IsDigit(CharAt(name, i)) THEN i
    ELSE DigitRunStart(name, i - 1)

\* The 8 bytes sortName puts in place of the digit run s64.
NumericField(s64) ==
    IF Len(s64) > 0
    THEN LET r == ParseUint(s64)
         IN IF ~r.err THEN PlusOne(r.val) ELSE ZeroBytes
    ELSE ZeroBytes

sortName(filename) ==
    LET ext == Ext(filename)
        name == SubSeq(filename, 1, Len(filename) - Len(ext))
        i == DigitRunStart(name, Len(name))
        s64 == SubSeq(name, i + 1, Len(name))
    IN Bytes(SubSeq(name, 1, i)) \o NumericField(s64) \o Bytes(ext)

----------------------------------------------------------------------------
(* Constants of the program *)

a4Width == 210
a4Height == 297

imageFormats == << "png", "jpg", "jpeg", "gif" >>

\* The usage line of the help text
helpString == "usage: imgdir2pdf DIR"

EmptyInputError == "No suitable files in given directory."

----------------------------------------------------------------------------
(* Bounds and inputs *)

MaxFiles == 2      \* entries in the directory
MaxPathLen == 5    \* characters of a generated directory argument
MaxDim == 4        \* width and height of a generated image or template

\* The names a directory may hold, and the names of its subdirectories.
FileNames ==
    { "amt.png", "amt0.png", "amt2.png", "amt10.png", "amt099.png",
      "amt100.png", "amt18446744073709551614.png",
      "amt18446744073709551615.png", "amt18446744073709551616.png",
      "a.png", "b.txt", "c.jpeg", "d", "xpng", "e.PNG", "f.jpg", "g.gif",
      "h.apng" }
DirNames == { "sub.png" }

Entries ==
    { [name |-> n, isDir |-> FALSE] : n \in FileNames }
        \cup { [name |-> n, isDir |-> TRUE] : n \in DirNames }

RECURSIVE DirsOfSize(_)
DirsOfSize(n) ==
    IF n = 0 THEN { {} }
    ELSE LET smaller == DirsOfSize(n - 1)
         IN smaller \cup { d \cup { e } : d \in smaller, e \in Entries }

\* The directory arguments of a run, and the working directories.
DirArgs == { "photos", "/x/y/v1.0/" }
WorkDirs == { "", "/x/y" }

\* What opening and decoding an image file can give.
ImageSizes == { << 100, 200 >>, << 200, 100 >> }
ProbeOutcomes ==
    { [err |-> e, w |-> 0, h |-> 0] : e \in { "open", "decode" } }
        \cup { [err |-> "", w |-> sz[1], h |-> sz[2]] : sz \in ImageSizes }

----------------------------------------------------------------------------
(* Fractions *)

RECURSIVE GCD(_, _)
GCD(a, b) == IF b = 0 THEN a ELSE GCD(b, a % b)

\* n / d in lowest terms; x / 0 is +Inf, << 1, 0 >>, and 0 / 0 is NaN, << 0, 0 >>.
Frac(n, d) ==
    IF d = 0 THEN << IF n = 0 THEN 0 ELSE 1, 0 >>
    ELSE << n \div GCD(n, d), d \div GCD(n, d) >>
FracMul(q, k) == Frac(q[1] * k, q[2])

----------------------------------------------------------------------------
(* lsdir *)

\* any(target, other, f) with f = strings.HasSuffix, the one function the
\* program passes.
any(target, other) == \E k \in 1..Len(other) : HasSuffix(target, other[k])

\* The less function lsdir hands to sort.Slice.
sortLess(a, b) == BytesLess(sortName(a), sortName(b))

\* The orders sort.Slice can leave the names in: it is not stable, so names
\* with equal keys come out in any order.
RECURSIVE SortSlice(_)
SortSlice(names) ==
    IF names = {} THEN { << >> }
    ELSE UNION { { << m >> \o t : t \in SortSlice(names \ { m }) } :
                 m \in { x \in names : \A y \in names : ~sortLess(y, x) } }

\* The entries lsdir keeps.
Accepted(entries, fileExtension) ==
    { e.name : e \in { f \in entries :
                        ~f.isDir /\ any(f.name, fileExtension) } }

\* The outcomes of lsdir: a panic (err) or the sorted absolute paths.
lsdir(dirpath, fileExtension, entries, canList, w) ==
    IF ~canList THEN { [err |-> TRUE, val |-> << >>] }
    ELSE { LET abs == [k \in 1..Len(s) |-> Abs(Join(dirpath, s[k]), w)]
           IN IF \E k \in 1..Len(s) : abs[k].err
              THEN [err |-> TRUE, val |-> << >>]
              ELSE [err |-> FALSE, val |-> [k \in 1..Len(s) |-> abs[k].val]]
           : s \in SortSlice(Accepted(entries, fileExtension)) }

----------------------------------------------------------------------------
(* Image processing *)

\* optimalPageSize scaling the template height instead of the image height
optimalPageSizeOfTemplate(templateW, templateH, givenW, givenH) ==
    LET scaler == Frac(templateW, givenW)
    IN << Frac(templateW, 1), FracMul(scaler, templateH) >>

\* optimalPageSize with the height held to the template height
optimalPageSizeClamped(templateW, templateH, givenW, givenH) ==
    LET scaler == Frac(templateW, givenW)
        h == FracMul(scaler, givenH)
    IN << Frac(templateW, 1),
          IF h[1] > templateH * h[2] THEN Frac(templateH, 1) ELSE h >>

optimalPageSize(templateW, templateH, givenW, givenH) ==
    LET scaler == Frac(templateW, givenW)
    IN << Frac(templateW, 1), FracMul(scaler, givenH) >>

\* What getImageSize finds at imagepath: what it found there before, or
\* anything if the file was not read before.
Probe(imagepath) ==
    IF imagepath \in DOMAIN seen THEN { seen[imagepath] } ELSE ProbeOutcomes

\* getImageSize without the check of DecodeConfig's error
ProbeFailedOpenOnly(o) == o.err = "open"

\* The two checks of getImageSize: os.Open failed, or image.DecodeConfig did.
ProbeFailed(o) == o.err = "open" \/ o.err = "decode"

createDocument(size) ==
    [made |-> TRUE, def |-> size, pages |-> << >>, err |-> FALSE]

NoDocument == [made |-> FALSE, def |-> << >>, pages |-> << >>, err |-> FALSE]

\* gofpdf keeps the first error of a document, and every later call on the
\* document does nothing.
AddPageFormat(d, size) ==
    IF d.err THEN d
    ELSE [d EXCEPT !.pages = Append(@, [size |-> size, image |-> "", type |-> ""])]

ImageTypes == { "PNG", "JPG", "JPEG", "GIF" }

ImageOptions(d, imagepath, type, readable) ==
    IF d.err THEN d
    ELSE IF type \notin ImageTypes \/ ~readable THEN [d EXCEPT !.err = TRUE]
    ELSE [d EXCEPT !.pages[Len(d.pages)].image = imagepath,
                   !.pages[Len(d.pages)].type = type]

\* The image type addImagePage derives from the path; the slice [1:] of an
\* empty extension is out of range.
ImageType(imagepath) ==
    LET e == Ext(imagepath)
    IN IF Len(e) = 0 THEN [err |-> TRUE, val |-> ""]
       ELSE [err |-> FALSE, val |-> ToUpper(SubSeq(e, 2, Len(e)))]

\* The loop of processImages running from the last path to the first
LoopElemBackwards(ps, k) == ps[Len(ps) + 1 - k]

\* The element the loop of processImages handles in its k-th round.
LoopElem(ps, k) == ps[k]

\* getOutFilename naming the file after the argument, not its absolute form
getOutFilenameOfArgument(base, w) ==
    LET resultPath == Abs(base, w)
    IN IF resultPath.err THEN [err |-> TRUE, val |-> ""]
       ELSE [err |-> FALSE, val |-> Join(resultPath.val, Base(base) \o ".pdf")]

getOutFilename(base, w) ==
    LET resultPath == Abs(base, w)
    IN IF resultPath.err THEN [err |-> TRUE, val |-> ""]
       ELSE [err |-> FALSE,
             val |-> Join(resultPath.val, Base(resultPath.val) \o ".pdf")]

----------------------------------------------------------------------------
(* main *)

Idle ==
    /\ basepath = "" /\ outName = ""
    /\ templ = << 1, 1 >> /\ given = << 1, 1 >> /\ page = << >>

NotStarted ==
    /\ paths = << >> /\ saveAs = "" /\ seen = [p \in {} |-> 0]
    /\ probes = << >> /\ next = 0 /\ doc = NoDocument
    /\ outFile = [exists |-> FALSE, pages |-> << >>]
    /\ stdout = << >> /\ fault = ""

Init ==
    /\ files \in DirsOfSize(MaxFiles)
    /\ args \in { << >> } \cup { << d >> : d \in DirArgs }
    /\ wd \in WorkDirs
    /\ listable \in BOOLEAN
    /\ pc = "main"
    /\ NotStarted
    /\ Idle

Panic(msg) ==
    /\ pc' = "panic"
    /\ fault' = msg

\* main with no argument
PrintHelp ==
    /\ pc = "main"
    /\ Len(args) < 1
    /\ stdout' = Append(stdout, helpString)
    /\ pc' = "done"
    /\ UNCHANGED << args, wd, listable, files, paths, saveAs, seen, probes,
                    next, doc, outFile, fault, basepath, outName, templ,
                    given, page >>

\* lsdir(dir, imageFormats[:])
Lsdir ==
    /\ pc = "main"
    /\ Len(args) >= 1
    /\ \E r \in lsdir(args[1], imageFormats, files, listable, wd) :
          IF r.err
          THEN Panic("lsdir") /\ UNCHANGED paths
          ELSE /\ paths' = r.val
               /\ pc' = "getOutFilename"
               /\ UNCHANGED fault
    /\ UNCHANGED << args, wd, listable, files, saveAs, seen, probes, next,
                    doc, outFile, stdout, basepath, outName, templ, given,
                    page >>

\* getOutFilename(dir)
GetOutFilename ==
    /\ pc = "getOutFilename"
    /\ LET r == getOutFilename(args[1], wd)
       IN IF r.err
          THEN Panic("getOutFilename") /\ UNCHANGED saveAs
          ELSE /\ saveAs' = r.val
               /\ pc' = "processImages"
               /\ UNCHANGED fault
    /\ UNCHANGED << args, wd, listable, files, paths, seen, probes, next,
                    doc, outFile, stdout, basepath, outName, templ, given,
                    page >>

\* The probe of the first image and createDocument with its fitted size.
FirstImage ==
    \E o \in Probe(paths[1]) :
       /\ seen' = (paths[1] :> o) @@ seen
       /\ probes' = Append(probes, paths[1])
       /\ IF ProbeFailed(o)
          THEN Panic("getImageSize") /\ UNCHANGED << next, doc >>
          ELSE /\ doc' = createDocument(
                           optimalPageSize(a4Width, a4Height, o.w, o.h))
               /\ next' = 1
               /\ pc' = "loop"
               /\ UNCHANGED fault

\* processImages without its length check: an empty list gets a document of
\* the template size, which is written with no page.
ProcessImagesUnchecked ==
    /\ pc = "processImages"
    /\ IF Len(paths) < 1
       THEN /\ doc' = createDocument(
                        optimalPageSize(a4Width, a4Height, a4Width, a4Height))
            /\ next' = 1
            /\ pc' = "write"
            /\ UNCHANGED << seen, probes, fault >>
       ELSE FirstImage
    /\ UNCHANGED << args, wd, listable, files, paths, saveAs, outFile,
                    stdout, basepath, outName, templ, given, page >>

\* processImages up to its loop: the length check, the probe of the first
\* image and createDocument.
ProcessImages ==
    /\ pc = "processImages"
    /\ IF Len(paths) < 1
       THEN /\ Panic(EmptyInputError)
            /\ UNCHANGED << seen, probes, next, doc >>
       ELSE FirstImage
    /\ UNCHANGED << args, wd, listable, files, paths, saveAs, outFile,
                    stdout, basepath, outName, templ, given, page >>

\* One round of the loop of processImages: addImagePage(pdf, elem).
AddImagePage ==
    /\ pc = "loop"
    /\ next <= Len(paths)
    /\ LET elem == LoopElem(paths, next)
       IN \E o \in Probe(elem), readable \in BOOLEAN :
             /\ seen' = (elem :> o) @@ seen
             /\ probes' = Append(probes, elem)
             /\ IF ProbeFailed(o)
                THEN Panic("getImageSize") /\ UNCHANGED << next, doc >>
                ELSE LET size == optimalPageSize(a4Width, a4Height, o.w, o.h)
                         type == ImageType(elem)
                     IN IF type.err
                        THEN Panic("slice bounds out of range")
                             /\ UNCHANGED << next, doc >>
                        ELSE /\ doc' = ImageOptions(AddPageFormat(doc, size),
                                                    elem, type.val, readable)
                             /\ next' = next + 1
                             /\ pc' = IF next = Len(paths) THEN "write"
                                      ELSE "loop"
                             /\ UNCHANGED fault
    /\ UNCHANGED << args, wd, listable, files, paths, saveAs, outFile,
                    stdout, basepath, outName, templ, given, page >>

\* pdf.OutputFileAndClose(saveAs) and the report of its error
OutputFileAndClose ==
    /\ pc = "write"
    /\ \E created \in BOOLEAN :
          IF ~doc.err /\ created
          THEN /\ outFile' = [exists |-> TRUE, pages |-> doc.pages]
               /\ UNCHANGED stdout
          ELSE /\ stdout' = Append(stdout, "Error writing pdf")
               /\ UNCHANGED outFile
    /\ pc' = "done"
    /\ UNCHANGED << args, wd, listable, files, paths, saveAs, seen, probes,
                    next, doc, fault, basepath, outName, templ, given, page >>

Next ==
    \/ PrintHelp
    \/ Lsdir
    \/ GetOutFilename
    \/ ProcessImages
    \/ AddImagePage
    \/ OutputFileAndClose

Spec == Init /\ [][Next]_vars

----------------------------------------------------------------------------
(* getOutFilename on its own, over every short directory argument *)

PathChars == { "/", ".", "p", "q" }

RECURSIVE StringsUpTo(_)
StringsUpTo(n) ==
    IF n = 0 THEN { "" }
    ELSE LET shorter == StringsUpTo(n - 1)
         IN shorter \cup { s \o c : s \in shorter, c \in PathChars }

ExamplePaths ==
    { "/x/y/photos", "/x/y/photos/", "photos", "photos/", "./photos",
      "../y/photos", "/x/y/z/../photos" }
PathWorkDirs == { "", "/", "/x/y" }

InitPath ==
    /\ basepath \in StringsUpTo(MaxPathLen) \cup ExamplePaths
    /\ wd \in PathWorkDirs
    /\ outName = ""
    /\ pc = "path"
    /\ args = << >> /\ files = {} /\ listable = TRUE
    /\ NotStarted
    /\ templ = << 1, 1 >> /\ given = << 1, 1 >> /\ page = << >>

OutFilename ==
    /\ pc = "path"
    /\ LET r == getOutFilename(basepath, wd)
       IN IF r.err
          THEN Panic("getOutFilename") /\ UNCHANGED outName
          ELSE /\ outName' = r.val
               /\ pc' = "pathDone"
               /\ UNCHANGED fault
    /\ UNCHANGED << args, wd, listable, files, paths, saveAs, seen, probes,
                    next, doc, outFile, stdout, basepath, templ, given, page >>

NextPath == OutFilename

SpecPath == InitPath /\ [][NextPath]_vars

----------------------------------------------------------------------------
(* optimalPageSize on its own, over small templates and images *)

Dims == 1..MaxDim
Templates == { << a4Width, a4Height >> } \cup (Dims \X Dims)
Givens == ImageSizes \cup (Dims \X Dims)

InitFit ==
    /\ templ \in Templates
    /\ given \in Givens
    /\ page = << >>
    /\ pc = "fit"
    /\ args = << >> /\ files = {} /\ listable = TRUE /\ wd = ""
    /\ NotStarted
    /\ basepath = "" /\ outName = ""

Fit ==
    /\ pc = "fit"
    /\ page' = optimalPageSize(templ[1], templ[2], given[1], given[2])
    /\ pc' = "fitDone"
    /\ UNCHANGED << args, wd, listable, files, paths, saveAs, seen, probes,
                    next, doc, outFile, stdout, fault, basepath, outName,
                    templ, given >>

NextFit == Fit

SpecFit == InitFit /\ [][NextFit]_vars

----------------------------------------------------------------------------
(* What the properties speak of *)

\* lsdir has returned (it did not panic) in this run.
LsdirReturned == Len(args) >= 1 /\ pc # "main" /\ fault # "lsdir"

\* The file names lsdir returned, in its order.
Returned == [k \in 1..Len(paths) |-> Base(paths[k])]

Stem(n) == SubSeq(n, 1, Len(n) - Len(Ext(n)))

\* The maximal run of digits that ends s.
RECURSIVE TrailingDigits(_)
TrailingDigits(s) ==
    IF Len(s) = 0 \/ ~IsDigit(CharAt(s, Len(s))) THEN ""
    ELSE TrailingDigits(SubSeq(s, 1, Len(s) - 1)) \o CharAt(s, Len(s))

NonNumericPrefix(s) == SubSeq(s, 1, Len(s) - Len(TrailingDigits(s)))

RECURSIVE StripZeros(_)
StripZeros(d) ==
    IF Len(d) > 0 /\ CharAt(d, 1) = "0" THEN StripZeros(SubSeq(d, 2, Len(d)))
    ELSE d

\* a < b for two digit strings of the same length.
RECURSIVE DigitsLess(_, _)
DigitsLess(a, b) ==
    IF Len(a) = 0 THEN FALSE
    ELSE IF CharAt(a, 1) # CharAt(b, 1)
    THEN IndexIn(CharAt(a, 1), Digits) < IndexIn(CharAt(b, 1), Digits)
    ELSE DigitsLess(SubSeq(a, 2, Len(a)), SubSeq(b, 2, Len(b)))

\* The number written by digit run a is below the one written by b; no
\* digits at all is below every number.
RunLess(a, b) ==
    IF a = "" THEN b # ""
    ELSE /\ b # ""
         /\ LET x == StripZeros(a)
                y == StripZeros(b)
            IN Len(x) < Len(y) \/ (Len(x) = Len(y) /\ DigitsLess(x, y))

DotSuffixes == { ".png", ".jpg", ".jpeg", ".gif" }

----------------------------------------------------------------------------
(* Properties *)

\* C1: of two names lsdir returns whose stems have the same non-numeric
\* prefix, the one whose trailing digit run is the smaller number (no digits
\* being the smallest) comes earlier in the result.
C1_NumericOrder ==
    \A i, j \in 1..Len(paths) :
        LET a == Stem(Returned[i])
            b == Stem(Returned[j])
        IN (/\ NonNumericPrefix(a) = NonNumericPrefix(b)
            /\ RunLess(TrailingDigits(a), TrailingDigits(b))) => i < j

\* C2: lsdir returns exactly the entries that are not directories and whose
\* names end with .png, .jpg, .jpeg or .gif, the dot included.
C2_DotSuffixFilter ==
    LsdirReturned =>
        { Returned[k] : k \in 1..Len(paths) }
            = { e.name : e \in { f \in files :
                    ~f.isDir /\ \E x \in DotSuffixes : HasSuffix(f.name, x) } }

\* C9: once lsdir has sorted the directory, every file name of it whose stem
\* ends with digits has a numeric field that is not all zero, and a sort key
\* other than that of the same name with the digits removed.
C9_NonZeroField ==
    LsdirReturned =>
        \A e \in files :
            LET st == Stem(e.name)
                run == TrailingDigits(st)
            IN run # "" =>
                /\ NumericField(run) # ZeroBytes
                /\ sortName(e.name)
                     # sortName(NonNumericPrefix(st) \o Ext(e.name))

\* C10: addImagePage can type every path lsdir returns: the path has an
\* extension and its upper-cased letters are PNG, JPG, JPEG or GIF.
C10_EveryPathTyped ==
    \A k \in 1..Len(paths) :
        /\ ~ImageType(paths[k]).err
        /\ ImageType(paths[k]).val \in ImageTypes

\* C3 as stated: the page is the template width by the template height
\* times (template width / image width).
C3_TemplateHeightScaled ==
    pc = "fitDone" =>
        page = << Frac(templ[1], 1),
                  FracMul(Frac(templ[1], given[1]), templ[2]) >>

\* C3 as the code has it: the page is the template width by the image height
\* times (template width / image width); for template (210, 297) that is
\* (210, 420) for a 100x200 image and (210, 105) for a 200x100 image.
C3_ImageHeightScaled ==
    pc = "fitDone" =>
        /\ page[1] = << templ[1], 1 >>
        /\ page[2][2] > 0
        /\ page[2][1] * given[1] = page[2][2] * templ[1] * given[2]
        /\ (templ = << 210, 297 >> /\ given = << 100, 200 >>)
              => page = << << 210, 1 >>, << 420, 1 >> >>
        /\ (templ = << 210, 297 >> /\ given = << 200, 100 >>)
              => page = << << 210, 1 >>, << 105, 1 >> >>

C3_Witness ==
    /\ pc = "fitDone"
    /\ templ = << a4Width, a4Height >>
    /\ given = << 100, 200 >>
    /\ page = << << 210, 1 >>, << 420, 1 >> >>

\* The page is higher than the template.
PageAboveTemplate == page[2][1] > templ[2] * page[2][2]

\* C8: the fitted page has the aspect ratio of the image, pageW * imageH =
\* pageH * imageW, its width is the template width, and its height exceeds
\* the template height whenever the image is narrower than the template.
C8_AspectRatioKept ==
    pc = "fitDone" =>
        /\ page[1] = << templ[1], 1 >>
        /\ page[1][1] * given[2] * page[2][2]
              = page[2][1] * given[1] * page[1][2]
        /\ PageAboveTemplate <=> templ[1] * given[2] > templ[2] * given[1]

C8_Witness ==
    /\ pc = "fitDone"
    /\ given[1] # given[2]
    /\ PageAboveTemplate

\* C4: the file written holds one page per path lsdir returned, the k-th
\* page showing the k-th path; so does the document handed to the write
\* when it holds no error.
C4_PagesFollowPaths ==
    /\ outFile.exists =>
          /\ Len(outFile.pages) = Len(paths)
          /\ \A k \in 1..Len(paths) : outFile.pages[k].image = paths[k]
    /\ (pc = "write" /\ ~doc.err) =>
          [k \in 1..Len(doc.pages) |-> doc.pages[k].image] = paths

C4_Witness ==
    /\ outFile.exists
    /\ Len(paths) >= 2
    /\ Len(probes) = Len(paths) + 1

\* processImages was entered and has left its first step.
ProcessImagesRan ==
    /\ LsdirReturned
    /\ pc \notin { "getOutFilename", "processImages" }
    /\ fault # "getOutFilename"

\* C5: with no matching file nothing is ever probed, no document is made and
\* no file is written, and processImages ends in the empty-input panic.
C5_EmptyInputFailsFirst ==
    (LsdirReturned /\ paths = << >>) =>
        /\ probes = << >>
        /\ ~doc.made
        /\ ~outFile.exists
        /\ ProcessImagesRan => (pc = "panic" /\ fault = EmptyInputError)

C5_Witness ==
    /\ pc = "panic"
    /\ fault = EmptyInputError
    /\ files # {}

\* C6: a run that panicked wrote no file, a probe that failed ended the run
\* there, and a file is written only when every path lsdir returned was
\* probed without error and has its page.
C6_NoOutputAfterFailure ==
    /\ fault # "" => (pc = "panic" /\ ~outFile.exists)
    /\ (\E p \in DOMAIN seen : seen[p].err # "") =>
          (pc = "panic" /\ fault = "getImageSize")
    /\ outFile.exists =>
          /\ \A k \in 1..Len(paths) :
                paths[k] \in DOMAIN seen /\ seen[paths[k]].err = ""
          /\ Len(doc.pages) = Len(paths)

C6_Witness ==
    /\ pc = "panic"
    /\ fault = "getImageSize"
    /\ Len(doc.pages) >= 1
    /\ ~outFile.exists

\* The characters of p after its last slash.
LastComponent(p) == SubSeq(p, LastSlash(p, Len(p)) + 1, Len(p))

\* C7: getOutFilename gives the absolute form of its argument, a slash, the
\* last component of that absolute form and ".pdf"; for an argument that
\* resolves to /x/y/photos it gives /x/y/photos/photos.pdf.
C7_OutputInsideDir ==
    pc = "pathDone" =>
        LET a == Abs(basepath, wd).val
        IN /\ outName = (IF a = "/" THEN a ELSE a \o "/")
                            \o LastComponent(a) \o ".pdf"
           /\ a = "/x/y/photos" => outName = "/x/y/photos/photos.pdf"

C7_Witness ==
    /\ pc = "pathDone"
    /\ basepath = "photos/"
    /\ outName = "/x/y/photos/photos.pdf"

====
